---- MODULE Spec2Model ----
(***************************************************************************)
(* ObsidianGraph (src/src/app/components/graph.tsx): the React component   *)
(* that loads a node/link dataset, filters it, keeps a selection with its  *)
(* connected set, draws the graph in a render effect (zoom behaviour, force *)
(* simulation, drag behaviour) and routes the links on every simulation     *)
(* tick.                                                                    *)
(*                                                                         *)
(* Representation.  A JavaScript string is a sequence of one-character     *)
(* strings, so that toLowerCase and includes are computed.  The empty      *)
(* category "" is NoCat and a node without a category field has            *)
(* UndefinedCat (both falsy in the filter's test); undefined/"" for a path  *)
(* is NoPath.  An undefined link endpoint is Undefined.  null for           *)
(* selectedNode is NoNode, null for graphData is NullData.  Object identity *)
(* of nodes is the pair (gen, id): every load builds new node objects       *)
(* (graph.tsx:227).  Object identity of links is lid.                       *)
(*                                                                         *)
(* Numbers.  alpha and alphaTarget of the simulation are in thousandths    *)
(* (1000 is 1.0), the zoom scale k is in thousandths (800 is 0.8); a        *)
(* product with a fraction is rounded down.                                 *)
(***************************************************************************)
EXTENDS Integers, Sequences, FiniteSets, TLC

VARIABLES
    graphData,        \* useState graphData (graph.tsx:117)
    loading,          \* useState loading (graph.tsx:118)
    error,            \* useState error (graph.tsx:119)
    logged,           \* console.error has been called (graph.tsx:234)
    mounted,          \* the component is mounted (no unmount, no uncaught error)
    crashed,          \* an error was thrown out of a render or an effect
    categoryFilters,  \* useState categoryFilters (graph.tsx:129)
    searchTerm,       \* useState searchTerm (graph.tsx:144)
    selectedNode,     \* useState selectedNode (graph.tsx:125)
    connectedNodes,   \* useState connectedNodes (graph.tsx:128)
    connPending,      \* the connected-nodes effect has changed deps and has not run yet
    renderPending,    \* the render effect has changed deps and has not run yet
    drawn,            \* what the last run of the render effect built and closed over
    sim,              \* the d3 simulation the last run of the render effect constructed
    orphans,          \* number of earlier simulations whose tick loop was never stopped
    transform,        \* the zoom transform of the svg (x, y, k)
    viewport,         \* clientWidth, clientHeight of the svg
    zooms,            \* number of zoom and pan gestures handled so far
    pos,              \* x, y of every live node object
    pin,              \* fx, fy of every live node object
    gestures,         \* the drag gestures in progress
    lastEnded,        \* the subject of the drag gesture that ended last, and where it was
    paths,            \* the "d" attribute of every drawn link, set by the tick handler
    loads,            \* number of data loads so far
    clickTurn,        \* parity of the number of node clicks handled so far
    githubUrl,        \* the githubUrl prop (graph.tsx:115)
    requests,         \* the fetches of fetchGraphData that have not completed yet
    selectedFile,     \* useState selectedFile (graph.tsx:126)
    openedFiles       \* useState openedFiles (graph.tsx:127)

vars == <<graphData, loading, error, logged, mounted, crashed,
          categoryFilters, searchTerm, selectedNode, connectedNodes,
          connPending, renderPending, drawn, sim, orphans, transform, viewport,
          zooms, pos, pin, gestures, lastEnded, paths, loads, clickTurn,
          githubUrl, requests, selectedFile, openedFiles>>

----------------------------------------------------------------------------
(* Bounds *)

MaxLoads == 2

(* Zoom and pan gestures handled in a run. *)
MaxZooms == 3

(* SpecTick follows every simulation for its first MaxHotTicks ticks. *)
MaxHotTicks == 2

----------------------------------------------------------------------------
(* Values *)

NoCat == ""
UndefinedCat == "(undefined)"
NoPath == <<>>
Undefined == -1
NoPos == <<>>
NoColor == ""
NoGesture == [node |-> [id |-> 0, name |-> <<>>, path |-> <<>>, category |-> "",
                        color |-> "", gen |-> 0],
              at |-> <<>>]
NoError == ""

NoNode ==
    [id |-> 0, name |-> <<>>, path |-> NoPath, category |-> NoCat,
     color |-> NoColor, gen |-> 0]

(* links is the array of links when linksShape is "array"; otherwise the
   links field is missing ("missing") or holds an object that is not an array
   ("object"), and links is empty. *)
NullData == [gen |-> 0, nodes |-> <<>>, links |-> <<>>, linksShape |-> "array"]

RawNode(i, n, p, c) ==
    [id |-> i, name |-> n, path |-> p, category |-> c, color |-> NoColor]

(* A node the service supplied with a color of its own. *)
ColoredNode(i, n, p, c, col) ==
    [id |-> i, name |-> n, path |-> p, category |-> c, color |-> col]

(* A link endpoint (number | Node): a number as received, or the node object
   d3's link force put in its place ("resolved lazily"). *)
Num(n) == [resolved |-> FALSE, num |-> n, node |-> NoNode]

Ref(node) == [resolved |-> TRUE, num |-> Undefined, node |-> node]

RawLink(s, t) == [source |-> Num(s), target |-> Num(t)]

(* A fetch of fetchGraphData in flight: the githubUrl it was made for and its
   number among the fetches made so far. *)
Request(u, n) == [url |-> u, n |-> n]

(* The values of the githubUrl prop. *)
Urls == {1, 2}

(* A response body: nodesShape and linksShape say whether the field holds an
   array ("array"), is missing ("missing") or holds an object that is not an
   array ("object"). *)
Payload(nodes, links) ==
    [nodes |-> nodes, links |-> links, nodesShape |-> "array", linksShape |-> "array"]

(* The payloads the analysis service may answer with.  The first has three
   links on the pair {1,2}, two on {2,3}, one on {1,3}, a link with an undefined
   target and a link from an id no node has; the second has a node with an empty
   category, a link to it, a self-loop and a link with an undefined source; the
   third has config, types and other nodes and a link of every combination;
   the fourth is a single node; the fifth has a node that comes with a color
   and one that does not; the others are malformed: no nodes field, no links
   field, a links field that is not an array, a node without a category; the
   tenth is the single node of another repository. *)
Payloads ==
    << Payload(<< RawNode(1, <<"A","p","p">>, NoPath, "page"),
                  RawNode(2, <<"g","r","a">>, NoPath, "default"),
                  RawNode(3, <<"x">>, <<"s","/","A","P","P">>, "default") >>,
               << RawLink(1, 2), RawLink(2, 1), RawLink(1, 2),
                  RawLink(2, 3), RawLink(3, 2), RawLink(1, 3),
                  RawLink(1, Undefined), RawLink(7, 1) >>),
       Payload(<< RawNode(1, <<"a","p">>, <<"A","p","p">>, "page"),
                  RawNode(5, <<"g">>, NoPath, NoCat) >>,
               << RawLink(1, 5), RawLink(1, 1), RawLink(Undefined, 1) >>),
       Payload(<< RawNode(1, <<"c">>, NoPath, "config"),
                  RawNode(2, <<"a">>, NoPath, "component"),
                  RawNode(3, <<"t">>, NoPath, "types"),
                  RawNode(4, <<"b">>, NoPath, "component") >>,
               << RawLink(1, 2), RawLink(2, 3), RawLink(3, 1), RawLink(2, 4) >>),
       Payload(<< RawNode(1, <<"a">>, NoPath, "page") >>, << >>),
       Payload(<< ColoredNode(1, <<"a">>, NoPath, "page", "#123456"),
                  RawNode(2, <<"g">>, NoPath, "page") >>,
               << RawLink(1, 2) >>),
       [nodes |-> << >>, links |-> << RawLink(1, 1) >>,
        nodesShape |-> "missing", linksShape |-> "array"],
       [nodes |-> << RawNode(1, <<"a">>, NoPath, "page") >>, links |-> << >>,
        nodesShape |-> "array", linksShape |-> "missing"],
       [nodes |-> << RawNode(1, <<"a">>, NoPath, "page") >>, links |-> << >>,
        nodesShape |-> "array", linksShape |-> "object"],
       Payload(<< RawNode(1, <<"a">>, NoPath, UndefinedCat) >>, << >>),
       Payload(<< RawNode(2, <<"g">>, NoPath, "page") >>, << >>) >>

(* The payloads of each specification. *)
GraphPayloads == {1, 2}

ForcePayloads == {3}

SimPayloads == {4}

LoadPayloads == {5, 6, 7, 8, 9}

FilePayloads == {1}

(* The payload the service answers with for each githubUrl, where the
   requests are followed. *)
UrlPayload == <<4, 10>>

(* fetchGraphData's palette: graph.tsx:216-226 *)
colorPalette ==
    << "#4a90e2", "#50e3c2", "#7ed321", "#f5a623", "#bd10e0",
       "#d0021b", "#9b9b9b", "#9013fe", "#f8e71c" >>

(* The values Math.floor(Math.random() * colorPalette.length) takes for the
   nodes of payload p, one per node, when Math.random() stays below k/9. *)
ColorDraws(p, k) == [DOMAIN Payloads[p].nodes -> 0..(k - 1)]

(* clientWidth, clientHeight of the svg. *)
Viewports == { <<800, 600>>, <<400, 300>> }

(* The zoom transform of an element no zoom behaviour has been applied to. *)
zoomIdentity == [x |-> 0, y |-> 0, k |-> 1000]

(* Wheel and double-click zoom factors (numerator, denominator) and the
   pointer positions they are centred on; the moves of a pan. *)
ZoomFactors == { <<8, 1>>, <<1, 8>> }

Pivots == { <<0, 0>>, <<400, 300>> }

PanMoves == { <<40, -20>> }

(* The texts typed into the search box. *)
SearchTerms == { <<>>, <<"a","P","p">> }

(* The file names the analysis report refers to. *)
FileRefs == { <<"A","P","P">>, <<"/","a","p","p">>, <<" ","x"," ">>, <<"z">> }

(* Positions the forces may move a node to. *)
Points == { <<0, 0>>, <<6, 2>> }

(* Pointer positions of a drag, in the coordinates of the graph. *)
PointerPoints == { <<6, 2>>, <<4, 4>> }

----------------------------------------------------------------------------
(* Strings *)

Lower(c) ==
    CASE c = "A" -> "a"
      [] c = "P" -> "p"
      [] OTHER -> c

toLowerCase(s) == [i \in DOMAIN s |-> Lower(s[i])]

includes(s, t) ==
    \E i \in 0..(Len(s) - Len(t)) : SubSeq(s, i + 1, i + Len(t)) = t

endsWith(s, t) ==
    Len(t) <= Len(s) /\ SubSeq(s, Len(s) - Len(t) + 1, Len(s)) = t

RECURSIVE trimStart(_)
trimStart(s) == IF s # <<>> /\ Head(s) = " " THEN trimStart(Tail(s)) ELSE s

RECURSIVE trimEnd(_)
trimEnd(s) ==
    IF s # <<>> /\ s[Len(s)] = " " THEN trimEnd(SubSeq(s, 1, Len(s) - 1)) ELSE s

trim(s) == trimEnd(trimStart(s))

----------------------------------------------------------------------------
(* Sequences *)

Range(s) == { s[i] : i \in DOMAIN s }

(* Array.prototype.indexOf, 0-based, -1 when absent *)
indexOf(s, x) ==
    IF \E i \in DOMAIN s : s[i] = x
    THEN (CHOOSE i \in DOMAIN s : s[i] = x /\ \A j \in 1..(i - 1) : s[j] # x) - 1
    ELSE -1

(* Array.prototype.find on node ids; NoNode when none (the code's "|| null") *)
findById(nodes, i) ==
    IF \E k \in DOMAIN nodes : nodes[k].id = i
    THEN nodes[CHOOSE k \in DOMAIN nodes :
                 nodes[k].id = i /\ \A j \in 1..(k - 1) : nodes[j].id # i]
    ELSE NoNode

----------------------------------------------------------------------------
(* Filter functions: graph.tsx:326-352 *)

(* categoryFilters[node.category] ?? true *)
passesCategory(cf, cat) == IF cat \in DOMAIN cf THEN cf[cat] ELSE TRUE

(* Mutant of passesSearch: the search term is not lower-cased. *)
passesSearchTermAsTyped(node, term) ==
    \/ term = <<>>
    \/ node.name # <<>> /\ includes(toLowerCase(node.name), term)
    \/ node.path # NoPath /\ includes(toLowerCase(node.path), term)

passesSearch(node, term) ==
    \/ term = <<>>
    \/ node.name # <<>> /\ includes(toLowerCase(node.name), toLowerCase(term))
    \/ node.path # NoPath /\ includes(toLowerCase(node.path), toLowerCase(term))

FilteredNodes(data, cf, term) ==
    IF data = NullData THEN <<>>
    ELSE LET keep(node) == /\ node.category \notin {NoCat, UndefinedCat}
                           /\ passesCategory(cf, node.category)
                           /\ passesSearch(node, term)
         IN SelectSeq(data.nodes, keep)

(* typeof node === "object" ? node.id : node : graph.tsx:73-74 *)
getNodeId(endpoint) == IF endpoint.resolved THEN endpoint.node.id ELSE endpoint.num

(* graph.tsx:76-81 *)
getNodeById(data, endpoint) ==
    IF ~endpoint.resolved THEN findById(data, endpoint.num) ELSE endpoint.node

(* Mutant of FilteredLinks: only the source is looked up among the visible nodes. *)
FilteredLinksSourceOnly(data, cf, term) ==
    IF data = NullData \/ data.linksShape = "missing" THEN <<>>
    ELSE LET nodeIds == { n.id : n \in Range(FilteredNodes(data, cf, term)) }
             keep(link) == /\ link.source # Num(Undefined)
                           /\ link.target # Num(Undefined)
                           /\ getNodeId(link.source) \in nodeIds
         IN SelectSeq(data.links, keep)

FilteredLinks(data, cf, term) ==
    IF data = NullData \/ data.linksShape = "missing" THEN <<>>
    ELSE LET nodeIds == { n.id : n \in Range(FilteredNodes(data, cf, term)) }
             keep(link) == /\ link.source # Num(Undefined)
                           /\ link.target # Num(Undefined)
                           /\ getNodeId(link.source) \in nodeIds
                           /\ getNodeId(link.target) \in nodeIds
         IN SelectSeq(data.links, keep)

(* graphData.links.filter is not a function: graph.tsx:345 *)
getFilteredLinksThrows(data) == data # NullData /\ data.linksShape = "object"

getFilteredNodes == FilteredNodes(graphData, categoryFilters, searchTerm)

getFilteredLinks == FilteredLinks(graphData, categoryFilters, searchTerm)

(* setCategoryFilters(prev => ({...prev, [category]: !prev[category]})): graph.tsx:629-634 *)
toggled(cf, category) ==
    [c \in DOMAIN cf \cup {category} |->
        IF c = category
        THEN ~(IF category \in DOMAIN cf THEN cf[category] ELSE FALSE)
        ELSE cf[c]]

InitialFilters ==
    [c \in {"page", "layout", "component", "api", "hook", "util", "config",
            "styles", "types", "loading", "error"} |-> TRUE]

----------------------------------------------------------------------------
(* Connected-nodes effect: graph.tsx:357-374 *)

(* Mutant of ConnectedOf: only the links leaving the selected node are followed. *)
ConnectedOfOutgoing(sel, data, cf, term) ==
    IF sel = NoNode \/ data = NullData THEN <<>>
    ELSE LET filteredLinks == FilteredLinks(data, cf, term)
             connectedNodeIds ==
                 { getNodeId(l.target) : l \in { k \in Range(filteredLinks) :
                                                  getNodeId(k.source) = sel.id } }
             keep(node) == node.id \in connectedNodeIds
         IN SelectSeq(data.nodes, keep)

ConnectedOf(sel, data, cf, term) ==
    IF sel = NoNode \/ data = NullData THEN <<>>
    ELSE LET filteredLinks == FilteredLinks(data, cf, term)
             connectedNodeIds ==
                 { getNodeId(l.target) : l \in { k \in Range(filteredLinks) :
                                                  getNodeId(k.source) = sel.id } }
                 \cup
                 { getNodeId(l.source) : l \in { k \in Range(filteredLinks) :
                                                  getNodeId(k.target) = sel.id } }
             keep(node) == node.id \in connectedNodeIds
         IN SelectSeq(data.nodes, keep)

----------------------------------------------------------------------------
(* Render effect: graph.tsx:380-602 *)

(* d3's link force replaces a numeric endpoint by the simulation node with that id *)
resolveEndpoint(e, simNodes) ==
    IF e.resolved THEN e ELSE Ref(findById(simNodes, e.num))

resolveLink(link, simNodes) ==
    [link EXCEPT !.source = resolveEndpoint(@, simNodes),
                 !.target = resolveEndpoint(@, simNodes)]

(* node.classed("highlighted", ...) : graph.tsx:490-495 *)
nodeIsHighlighted(n, sel, conn) ==
    n.id = sel.id \/ \E i \in DOMAIN conn : conn[i].id = n.id

(* Mutant of nodeIsFaded: the connected set is not consulted. *)
nodeIsFadedUnlessSelected(n, sel, conn) == n.id # sel.id

(* node.classed("faded", ...) : graph.tsx:496-501 *)
nodeIsFaded(n, sel, conn) ==
    n.id # sel.id /\ ~ \E i \in DOMAIN conn : conn[i].id = n.id

(* link.classed("highlighted", ...) : graph.tsx:503-507 *)
linkIsHighlighted(l, sel) ==
    getNodeId(l.source) = sel.id \/ getNodeId(l.target) = sel.id

(* link.classed("faded", ...) : graph.tsx:508-512 *)
linkIsFaded(l, sel) ==
    getNodeId(l.source) # sel.id /\ getNodeId(l.target) # sel.id

Undrawn ==
    [built |-> FALSE, data |-> NullData, selectedNode |-> NoNode,
     connectedNodes |-> <<>>, nodes |-> <<>>, links |-> <<>>,
     nodeHighlighted |-> {}, nodeFaded |-> {},
     linkHighlighted |-> {}, linkFaded |-> {}]

(* d3 puts a node that has no x, y yet on a spiral, by its index in the
   simulation's node array; the model takes the point from Points by index. *)
InitPoint(i) == IF i % 2 = 1 THEN <<0, 0>> ELSE <<6, 2>>

(* Mutant of initializeNodes: every node is put on the spiral again. *)
initializeNodesAnew(i, p, fixed) ==
    IF fixed # NoPos THEN fixed ELSE InitPoint(i)

(* d3.forceSimulation(filteredNodes) (graph.tsx:410-411) on the node with
   index i, position p and pin fixed: a pinned node is put at its pin, a node
   without a position on the spiral, any other node stays where it is. *)
initializeNodes(i, p, fixed) ==
    IF fixed # NoPos THEN fixed
    ELSE IF p = NoPos THEN InitPoint(i)
    ELSE p

(* Mutant of linkDistance: "types" is tested before "config". *)
linkDistanceTypesFirst(link, data) ==
    LET sourceNode == findById(data.nodes, getNodeId(link.source))
        targetNode == findById(data.nodes, getNodeId(link.target))
    IN IF sourceNode.category = "types" \/ targetNode.category = "types" THEN 150
       ELSE IF sourceNode.category = "config" \/ targetNode.category = "config" THEN 180
       ELSE 120

(* The distance accessor of the link force: graph.tsx:419-435 *)
linkDistance(link, data) ==
    LET sourceNode == findById(data.nodes, getNodeId(link.source))
        targetNode == findById(data.nodes, getNodeId(link.target))
    IN IF sourceNode.category = "config" \/ targetNode.category = "config" THEN 180
       ELSE IF sourceNode.category = "types" \/ targetNode.category = "types" THEN 150
       ELSE 120

(* d3.forceSimulation: alpha 1, alphaMin 0.001, alphaTarget 0, started;
   .alphaDecay(0.01): graph.tsx:410-440 *)
InitialAlpha == 1000

alphaMin == 1

alphaDecayPercent == 1

NoSimulation == [running |-> FALSE, alpha |-> 0, alphaTarget |-> 0, distance |-> <<>>]

(* Mutant of forceSimulation: with no link to lay out the simulation is
   created stopped. *)
forceSimulationIdleWithoutLinks(distance) ==
    [running |-> distance # <<>>, alpha |-> InitialAlpha, alphaTarget |-> 0,
     distance |-> distance]

forceSimulation(distance) ==
    [running |-> TRUE, alpha |-> InitialAlpha, alphaTarget |-> 0, distance |-> distance]

(* zoomIdentity.translate(width / 2, height / 2).scale(0.8): graph.tsx:400-404 *)
InitialScale == 800

InitialTransform(vp) == [x |-> vp[1] \div 2, y |-> vp[2] \div 2, k |-> InitialScale]

(* The svg is in the document: neither the loading nor the error branch was
   rendered (graph.tsx:639-653, 1115). *)
svgPresent(S) == ~S.loading /\ S.error = NoError

(* The state of the component as one record, so that an effect is a function. *)
State ==
    [graphData |-> graphData, loading |-> loading, error |-> error,
     logged |-> logged, mounted |-> mounted, crashed |-> crashed,
     categoryFilters |-> categoryFilters,
     searchTerm |-> searchTerm, selectedNode |-> selectedNode,
     connectedNodes |-> connectedNodes, connPending |-> connPending,
     renderPending |-> renderPending, drawn |-> drawn, sim |-> sim,
     orphans |-> orphans, transform |-> transform, viewport |-> viewport,
     pos |-> pos, pin |-> pin, gestures |-> gestures, lastEnded |-> lastEnded,
     paths |-> paths]

(* Mutant of Cleanup: the render effect returns no cleanup. *)
CleanupNothing(S) == S

(* The cleanup the render effect returned, simulation.stop(): graph.tsx:599-601 *)
Cleanup(S) == [S EXCEPT !.sim.running = FALSE]

(* The render effect's body, after the cleanup of its previous run.  A drag
   gesture in progress keeps the handlers and the simulation of the run that
   bound it (current |-> FALSE); one on a node object that is no longer in
   graphData is dropped, it reaches nothing that is drawn. *)
RenderEffect(S) ==
    IF ~svgPresent(S) \/ S.graphData = NullData
    THEN Cleanup(S)
    ELSE LET C == Cleanup(S)
             filteredNodes == FilteredNodes(S.graphData, S.categoryFilters, S.searchTerm)
             filteredLinks == FilteredLinks(S.graphData, S.categoryFilters, S.searchTerm)
             lids == { l.lid : l \in Range(filteredLinks) }
             links == [i \in DOMAIN filteredLinks |->
                          resolveLink(filteredLinks[i], filteredNodes)]
             data == [S.graphData EXCEPT !.links =
                          [i \in DOMAIN @ |->
                              IF @[i].lid \in lids
                              THEN resolveLink(@[i], filteredNodes) ELSE @[i]]]
             sel == S.selectedNode
             conn == S.connectedNodes
             live == Range(S.graphData.nodes)
         IN [C EXCEPT
               !.graphData = data,
               !.drawn =
                   [built |-> TRUE, data |-> data, selectedNode |-> sel,
                    connectedNodes |-> conn, nodes |-> filteredNodes, links |-> links,
                    nodeHighlighted |->
                        IF sel # NoNode
                        THEN { n \in Range(filteredNodes) : nodeIsHighlighted(n, sel, conn) }
                        ELSE {},
                    nodeFaded |->
                        IF sel # NoNode
                        THEN { n \in Range(filteredNodes) : nodeIsFaded(n, sel, conn) }
                        ELSE {},
                    linkHighlighted |->
                        IF sel # NoNode
                        THEN { l.lid : l \in { k \in Range(links) : linkIsHighlighted(k, sel) } }
                        ELSE {},
                    linkFaded |->
                        IF sel # NoNode
                        THEN { l.lid : l \in { k \in Range(links) : linkIsFaded(k, sel) } }
                        ELSE {}],
               !.transform = InitialTransform(S.viewport),
               !.sim = forceSimulation([i \in DOMAIN links |-> linkDistance(links[i], data)]),
               !.orphans = IF C.sim.running THEN S.orphans + 1 ELSE S.orphans,
               !.pos = [n \in live |->
                          IF n \in Range(filteredNodes)
                          THEN initializeNodes(1 + indexOf(filteredNodes, n),
                                               S.pos[n], S.pin[n])
                          ELSE S.pos[n]],
               !.pin = [n \in live |-> S.pin[n]],
               !.gestures = { [g EXCEPT !.current = FALSE] :
                                g \in { h \in S.gestures : h.node \in live } },
               !.lastEnded = IF S.lastEnded.node \in live THEN S.lastEnded ELSE NoGesture,
               !.paths = <<>>]

(* An uncaught error: React removes the component, which runs the cleanup. *)
Crash(S) ==
    [Cleanup(S) EXCEPT !.crashed = TRUE, !.mounted = FALSE,
                       !.connPending = FALSE, !.renderPending = FALSE]

(* The connected-nodes effect, then the render effect, of one commit; the
   setConnectedNodes of the first makes the next commit, whose render effect is
   pending again (connectedNodes is one of its deps).  Either effect throws
   when it calls getFilteredLinks on a links field that is not an array. *)
Flush(S) ==
    IF /\ getFilteredLinksThrows(S.graphData)
       /\ \/ S.connPending /\ S.selectedNode # NoNode
          \/ S.renderPending /\ svgPresent(S)
    THEN Crash(S)
    ELSE LET R == IF S.renderPending THEN RenderEffect(S) ELSE S
         IN [R EXCEPT
               !.connectedNodes =
                   IF S.connPending
                   THEN ConnectedOf(S.selectedNode, S.graphData, S.categoryFilters,
                                    S.searchTerm)
                   ELSE @,
               !.connPending = FALSE,
               !.renderPending = S.connPending]

----------------------------------------------------------------------------
(* Tick handler, link path: graph.tsx:548-574 *)

(* Mutant of samePair: only links of the same direction are grouped. *)
samePairDirected(l, d) ==
    getNodeId(l.source) = getNodeId(d.source) /\ getNodeId(l.target) = getNodeId(d.target)

samePair(l, d) ==
    LET s1 == getNodeId(l.source)
        t1 == getNodeId(l.target)
        s2 == getNodeId(d.source)
        t2 == getNodeId(d.target)
    IN (s1 = s2 /\ t1 = t2) \/ (s1 = t2 /\ t1 = s2)

multipleLinks(d, filteredLinks) ==
    LET same(l) == samePair(l, d) IN SelectSeq(filteredLinks, same)

(* Mutant of linkOffset: the offsets are not centred on the straight segment. *)
linkOffsetFromFirst(d, filteredLinks) ==
    LET same(l) == (getNodeId(l.source) = getNodeId(d.source)
                      /\ getNodeId(l.target) = getNodeId(d.target))
                   \/ (getNodeId(l.source) = getNodeId(d.target)
                      /\ getNodeId(l.target) = getNodeId(d.source))
    IN indexOf(SelectSeq(filteredLinks, same), d) * 20

(* (index - (multipleLinks.length - 1) / 2) * 20, kept exact in the integers *)
linkOffset(d, filteredLinks) ==
    LET m == multipleLinks(d, filteredLinks)
        index == indexOf(m, d)
    IN ((2 * index - (Len(m) - 1)) * 20) \div 2

(* sourceNode?.x ?? 0 *)
coord(node, P, k) ==
    IF node = NoNode \/ node \notin DOMAIN P \/ P[node] = NoPos THEN 0 ELSE P[node][k]

(* The coordinates of Points are even, so the division by 2 is exact. *)
linkPath(d, filteredNodes, filteredLinks, P) ==
    LET sourceNode == getNodeById(filteredNodes, d.source)
        targetNode == getNodeById(filteredNodes, d.target)
        sourceX == coord(sourceNode, P, 1)
        sourceY == coord(sourceNode, P, 2)
        targetX == coord(targetNode, P, 1)
        targetY == coord(targetNode, P, 2)
    IN IF Len(multipleLinks(d, filteredLinks)) > 1
       THEN LET offset == linkOffset(d, filteredLinks)
            IN [kind |-> "Q", from |-> <<sourceX, sourceY>>,
                ctrl |-> <<(sourceX + targetX) \div 2 + offset,
                           (sourceY + targetY) \div 2 + offset>>,
                to |-> <<targetX, targetY>>]
       ELSE [kind |-> "L", from |-> <<sourceX, sourceY>>,
             ctrl |-> <<>>, to |-> <<targetX, targetY>>]

----------------------------------------------------------------------------
(* State machine *)

Apply(S) ==
    /\ graphData' = S.graphData
    /\ loading' = S.loading
    /\ error' = S.error
    /\ logged' = S.logged
    /\ mounted' = S.mounted
    /\ crashed' = S.crashed
    /\ categoryFilters' = S.categoryFilters
    /\ searchTerm' = S.searchTerm
    /\ selectedNode' = S.selectedNode
    /\ connectedNodes' = S.connectedNodes
    /\ connPending' = S.connPending
    /\ renderPending' = S.renderPending
    /\ drawn' = S.drawn
    /\ sim' = S.sim
    /\ orphans' = S.orphans
    /\ transform' = S.transform
    /\ viewport' = S.viewport
    /\ pos' = S.pos
    /\ pin' = S.pin
    /\ gestures' = S.gestures
    /\ lastEnded' = S.lastEnded
    /\ paths' = S.paths

Init ==
    /\ graphData = NullData
    /\ loading = TRUE
    /\ error = NoError
    /\ logged = FALSE
    /\ mounted = TRUE
    /\ crashed = FALSE
    /\ categoryFilters = InitialFilters
    /\ searchTerm = <<>>
    /\ selectedNode = NoNode
    /\ connectedNodes = <<>>
    /\ connPending = FALSE
    /\ renderPending = FALSE
    /\ drawn = Undrawn
    /\ sim = NoSimulation
    /\ orphans = 0
    /\ transform = zoomIdentity
    /\ viewport = <<800, 600>>
    /\ zooms = 0
    /\ pos = [n \in {} |-> NoPos]
    /\ pin = [n \in {} |-> NoPos]
    /\ gestures = {}
    /\ lastEnded = NoGesture
    /\ paths = <<>>
    /\ loads = 0
    /\ clickTurn = 0
    /\ githubUrl = 1
    /\ requests = {Request(1, 1)}
    /\ selectedFile = NoNode
    /\ openedFiles = <<>>

(* The main branch of the component is rendered: the sidebar, the search box
   and the svg (graph.tsx:639-653). *)
UIShown == mounted /\ ~loading /\ error = NoError

(* Mutant of MkData: a node that came with a color keeps it. *)
MkDataKeepSupplied(payload, g, draw) ==
    [gen |-> g,
     nodes |-> [i \in DOMAIN payload.nodes |->
                  [id |-> payload.nodes[i].id, name |-> payload.nodes[i].name,
                   path |-> payload.nodes[i].path,
                   category |-> payload.nodes[i].category,
                   color |-> IF payload.nodes[i].color # NoColor
                             THEN payload.nodes[i].color
                             ELSE colorPalette[draw[i] + 1],
                   gen |-> g]],
     links |-> [i \in DOMAIN payload.links |->
                  [source |-> payload.links[i].source,
                   target |-> payload.links[i].target, lid |-> i]],
     linksShape |-> payload.linksShape]

(* data.nodes.map(node => ({...node, color: colorPalette[...]})) and
   setGraphData(data): graph.tsx:214-232 *)
MkData(payload, g, draw) ==
    [gen |-> g,
     nodes |-> [i \in DOMAIN payload.nodes |->
                  [id |-> payload.nodes[i].id, name |-> payload.nodes[i].name,
                   path |-> payload.nodes[i].path,
                   category |-> payload.nodes[i].category,
                   color |-> colorPalette[draw[i] + 1],
                   gen |-> g]],
     links |-> [i \in DOMAIN payload.links |->
                  [source |-> payload.links[i].source,
                   target |-> payload.links[i].target, lid |-> i]],
     linksShape |-> payload.linksShape]

(* category.charAt(0) of a category button throws for a node without a
   category: graph.tsx:669-681 *)
renderThrows(S) ==
    /\ svgPresent(S)
    /\ S.graphData # NullData
    /\ \E n \in Range(S.graphData.nodes) : n.category = UndefinedCat

(* A response of the service arrives (fetchGraphData, graph.tsx:194-243).
   React runs the effects of the previous commit before it renders an update.
   data.nodes.map throws when nodes is not an array, which the catch logs and
   puts in error; otherwise the data replaces graphData and the component
   renders. *)
LoadData(r, p, draw) ==
    /\ mounted
    /\ loads < MaxLoads
    /\ r \in requests
    /\ \E F \in {Flush(State)} :
       \E data \in {MkData(Payloads[p], loads + 1, draw)} :
          LET caught == [F EXCEPT !.logged = TRUE, !.error = "TypeError",
                                  !.loading = FALSE]
              loaded == [F EXCEPT
                           !.graphData = data,
                           !.loading = FALSE,
                           !.connPending = TRUE,
                           !.renderPending = TRUE,
                           !.pos = [n \in Range(data.nodes) \cup Range(F.drawn.data.nodes) |->
                                      IF n \in DOMAIN F.pos THEN F.pos[n] ELSE NoPos],
                           !.pin = [n \in Range(data.nodes) \cup Range(F.drawn.data.nodes) |->
                                      IF n \in DOMAIN F.pin THEN F.pin[n] ELSE NoPos]]
          IN \E N \in { IF ~F.mounted THEN F
                        ELSE IF Payloads[p].nodesShape # "array" THEN caught
                        ELSE IF renderThrows(loaded) THEN Crash(loaded)
                        ELSE loaded } : Apply(N)
    /\ loads' = loads + 1
    /\ requests' = requests \ {r}
    /\ UNCHANGED <<zooms, clickTurn, githubUrl, selectedFile, openedFiles>>

(* The request fails or the response is not ok: graph.tsx:210-212, 233-239 *)
FetchFailed(r) ==
    /\ mounted
    /\ loads < MaxLoads
    /\ r \in requests
    /\ \E F \in {Flush(State)} :
       \E N \in { IF ~F.mounted THEN F
                  ELSE [F EXCEPT !.logged = TRUE,
                                 !.error = "Failed to fetch graph data",
                                 !.loading = FALSE] } : Apply(N)
    /\ loads' = loads + 1
    /\ requests' = requests \ {r}
    /\ UNCHANGED <<zooms, clickTurn, githubUrl, selectedFile, openedFiles>>

(* The parent renders the component with another githubUrl: the effect of
   fetchGraphData runs again and makes a fetch; nothing cancels the fetches
   still in flight (graph.tsx:194-243). *)
SetGithubUrl(u) ==
    /\ mounted
    /\ u # githubUrl
    /\ loads + Cardinality(requests) < MaxLoads
    /\ \E F \in {Flush(State)} :
          /\ Apply(F)
          /\ githubUrl' = IF F.mounted THEN u ELSE githubUrl
          /\ requests' = IF F.mounted
                         THEN requests \cup {Request(u, loads + Cardinality(requests) + 1)}
                         ELSE requests
    /\ UNCHANGED <<zooms, loads, clickTurn, selectedFile, openedFiles>>

(* A category button (one per category of graphData.nodes): graph.tsx:669-681 *)
ToggleCategory(category) ==
    /\ UIShown
    /\ graphData # NullData
    /\ category \in { n.category : n \in Range(graphData.nodes) }
    /\ \E F \in {Flush(State)} :
       \E N \in { IF ~F.mounted THEN F
                  ELSE [F EXCEPT
                          !.categoryFilters = toggled(@, category),
                          !.connPending = TRUE,
                          !.renderPending = TRUE] } : Apply(N)
    /\ UNCHANGED <<zooms, loads, clickTurn, githubUrl, requests, selectedFile,
                   openedFiles>>

(* The search box: graph.tsx:1103-1108 *)
SetSearchTerm(term) ==
    /\ UIShown
    /\ graphData # NullData
    /\ term # searchTerm
    /\ \E F \in {Flush(State)} :
       \E N \in { IF ~F.mounted THEN F
                  ELSE [F EXCEPT
                          !.searchTerm = term,
                          !.connPending = TRUE,
                          !.renderPending = TRUE] } : Apply(N)
    /\ UNCHANGED <<zooms, loads, clickTurn, githubUrl, requests, selectedFile,
                   openedFiles>>

(* The click handler the last render effect bound to node d; graphData and
   selectedNode are the values that run closed over: graph.tsx:480-488 *)
clickResult(d, closure) ==
    LET clickedNode == findById(closure.data.nodes, d.id)
    IN IF clickedNode = closure.selectedNode THEN NoNode ELSE clickedNode

(* The click handler without its call of openFile: the specifications about
   the graph leave the code panel out, whose state (selectedFile, openedFiles)
   no effect and no handler of the graph reads. *)
NodeClickGraph(d) ==
    /\ UIShown
    /\ drawn.built
    /\ d \in Range(drawn.nodes)
    /\ \E newSelected \in {clickResult(d, drawn)} :
          IF newSelected = selectedNode
          THEN UNCHANGED <<graphData, loading, error, logged, mounted, crashed,
                           categoryFilters, searchTerm, selectedNode, connectedNodes,
                           connPending, renderPending, drawn, sim, orphans, transform,
                           viewport, pos, pin, gestures, lastEnded, paths>>
          ELSE \E F \in {Flush(State)} :
               \E N \in { IF ~F.mounted THEN F
                          ELSE [F EXCEPT
                                  !.selectedNode = newSelected,
                                  !.connPending = TRUE,
                                  !.renderPending = TRUE] } : Apply(N)
    /\ clickTurn' = 1 - clickTurn
    /\ UNCHANGED <<zooms, loads, githubUrl, requests, selectedFile, openedFiles>>

(* Mutant of openFile: the node is appended whether or not it is open. *)
openFileAgain(node, files) == Append(files, node)

(* openFile (graph.tsx:157-166): setOpenedFiles(prev => prev.find(f => f.id ===
   node.id) ? prev : [...prev, node]); setSelectedFile(node) *)
openFile(node, files) ==
    IF \E i \in DOMAIN files : files[i].id = node.id THEN files ELSE Append(files, node)

(* The click handler: setSelectedNode and, if (clickedNode),
   openFile(clickedNode), in one commit. *)
NodeClick(d) ==
    /\ UIShown
    /\ drawn.built
    /\ d \in Range(drawn.nodes)
    /\ \E clickedNode \in {findById(drawn.data.nodes, d.id)} :
       \E newSelected \in {clickResult(d, drawn)} :
       \E file \in {IF clickedNode # NoNode THEN clickedNode ELSE selectedFile} :
       \E files \in {IF clickedNode # NoNode THEN openFile(clickedNode, openedFiles)
                                             ELSE openedFiles} :
          IF newSelected = selectedNode /\ file = selectedFile /\ files = openedFiles
          THEN UNCHANGED <<graphData, loading, error, logged, mounted, crashed,
                           categoryFilters, searchTerm, selectedNode, connectedNodes,
                           connPending, renderPending, drawn, sim, orphans, transform,
                           viewport, pos, pin, gestures, lastEnded, paths,
                           selectedFile, openedFiles>>
          ELSE \E F \in {Flush(State)} :
               /\ \E N \in { IF ~F.mounted \/ newSelected = selectedNode THEN F
                              ELSE [F EXCEPT
                                      !.selectedNode = newSelected,
                                      !.connPending = TRUE,
                                      !.renderPending = TRUE] } : Apply(N)
               /\ selectedFile' = IF F.mounted THEN file ELSE selectedFile
               /\ openedFiles' = IF F.mounted THEN files ELSE openedFiles
    /\ clickTurn' = 1 - clickTurn
    /\ UNCHANGED <<zooms, loads, githubUrl, requests>>

(* A click on an entry of the Connected Files list: openFile(node)
   (graph.tsx:729-732). *)
ConnectedFileClick(node) ==
    /\ UIShown
    /\ node \in Range(connectedNodes)
    /\ \E F \in {Flush(State)} :
          /\ Apply(F)
          /\ selectedFile' = IF F.mounted THEN node ELSE selectedFile
          /\ openedFiles' = IF F.mounted THEN openFile(node, openedFiles) ELSE openedFiles
    /\ UNCHANGED <<zooms, loads, clickTurn, githubUrl, requests>>

(* graphData.nodes.find(...) of openFileReference (graph.tsx:171-181), on the
   trimmed, lower-cased file name; NoNode when none. *)
findFileReference(nodes, file) ==
    LET fileToFind == trim(toLowerCase(file))
        matches(n) ==
            LET nodePath == IF n.path # NoPath THEN toLowerCase(n.path) ELSE <<>>
                nodeName == toLowerCase(n.name)
            IN \/ nodePath = fileToFind
               \/ endsWith(nodePath, fileToFind)
               \/ nodeName = fileToFind
    IN IF \E k \in DOMAIN nodes : matches(nodes[k])
       THEN nodes[CHOOSE k \in DOMAIN nodes :
                    matches(nodes[k]) /\ \A j \in 1..(k - 1) : ~matches(nodes[j])]
       ELSE NoNode

(* openFileReference(file) (graph.tsx:169-190), called from the analysis
   panel: the file found is opened, a file not found is logged and alerted. *)
OpenFileReference(file) ==
    /\ UIShown
    /\ graphData # NullData
    /\ \E F \in {Flush(State)} :
       \E found \in {IF F.graphData # NullData
                      THEN findFileReference(F.graphData.nodes, file) ELSE NoNode} :
          /\ \E N \in { IF F.mounted /\ F.graphData # NullData /\ found = NoNode
                         THEN [F EXCEPT !.logged = TRUE] ELSE F } : Apply(N)
          /\ selectedFile' = IF F.mounted /\ found # NoNode THEN found ELSE selectedFile
          /\ openedFiles' = IF F.mounted /\ found # NoNode
                            THEN openFile(found, openedFiles) ELSE openedFiles
    /\ UNCHANGED <<zooms, loads, clickTurn, githubUrl, requests>>

(* A click on the tab of an opened file: setSelectedFile(file)
   (graph.tsx:789). *)
TabClick(file) ==
    /\ UIShown
    /\ file \in Range(openedFiles)
    /\ \E F \in {Flush(State)} :
          /\ Apply(F)
          /\ selectedFile' = IF F.mounted THEN file ELSE selectedFile
    /\ UNCHANGED <<zooms, loads, clickTurn, githubUrl, requests, openedFiles>>

(* A click on the cross of a tab (graph.tsx:794-800): the file leaves
   openedFiles and, if it is the selected one, selectedFile becomes null. *)
TabClose(file) ==
    /\ UIShown
    /\ file \in Range(openedFiles)
    /\ \E F \in {Flush(State)} :
          /\ Apply(F)
          /\ openedFiles' = IF F.mounted
                            THEN SelectSeq(openedFiles, LAMBDA f : f.id # file.id)
                            ELSE openedFiles
          /\ selectedFile' = IF F.mounted /\ selectedFile # NoNode
                                 /\ selectedFile.id = file.id
                             THEN NoNode ELSE selectedFile
    /\ UNCHANGED <<zooms, loads, clickTurn, githubUrl, requests>>

(* React runs the pending effects of the last commit. *)
FlushEffects ==
    /\ mounted
    /\ connPending \/ renderPending
    /\ \E F \in {Flush(State)} : Apply(F)
    /\ UNCHANGED <<zooms, loads, clickTurn, githubUrl, requests, selectedFile,
                   openedFiles>>

(* The component is removed: React runs the pending effects, then the
   cleanup of the render effect. *)
Unmount ==
    /\ mounted
    /\ \E F \in {Flush(State)} :
       \E N \in { [Cleanup(F) EXCEPT !.mounted = FALSE] } : Apply(N)
    /\ UNCHANGED <<zooms, loads, clickTurn, githubUrl, requests, selectedFile,
                   openedFiles>>

(* alpha += (alphaTarget - alpha) * alphaDecay, in thousandths *)
alphaStep(alpha, alphaTarget) ==
    alpha + ((alphaTarget - alpha) * alphaDecayPercent) \div 100

(* Mutant of integrate: a pinned node is moved like any other. *)
integrateIgnoringPin(n, fixed, moved) == moved

(* if (node.fx == null) node.x += node.vx ...; else node.x = node.fx *)
integrate(n, fixed, moved) == IF fixed # NoPos THEN fixed ELSE moved

(* One step of the running simulation's timer: alpha moves towards its
   target, the forces move every simulation node that is not pinned, the tick
   handler sets every link's path (graph.tsx:548-597), and the timer stops
   once alpha is below alphaMin. *)
Tick ==
    /\ drawn.built
    /\ sim.running
    /\ \E moved \in [Range(drawn.nodes) -> Points] :
          LET P == [n \in DOMAIN pos |->
                      IF n \in Range(drawn.nodes)
                      THEN integrate(n, pin[n], moved[n]) ELSE pos[n]]
              alpha == alphaStep(sim.alpha, sim.alphaTarget)
          IN /\ pos' = P
             /\ paths' = [i \in DOMAIN drawn.links |->
                             linkPath(drawn.links[i], drawn.nodes, drawn.links, P)]
             /\ sim' = [sim EXCEPT !.alpha = alpha,
                                   !.running = ~(alpha < alphaMin)]
    /\ UNCHANGED <<graphData, loading, error, logged, mounted, crashed,
                   categoryFilters, searchTerm, selectedNode, connectedNodes,
                   connPending, renderPending, drawn, orphans, transform, viewport,
                   zooms, pin, gestures, lastEnded, loads, clickTurn,
                   githubUrl, requests, selectedFile, openedFiles>>

(* The drag behaviour of the last render (graph.tsx:607-624).  event.active
   is the number of other gestures of the same drag behaviour in progress. *)
DragAlphaTarget == 300

active(gs, g) == Cardinality({ h \in gs \ {g} : h.current = g.current })

(* Mutant of dragstarted: the simulation is not restarted. *)
dragstartedNoRestart(sm, n) ==
    IF n = 0 THEN [sm EXCEPT !.alphaTarget = DragAlphaTarget] ELSE sm

(* if (!event.active) simulation.alphaTarget(0.3).restart() *)
dragstarted(sm, n) ==
    IF n = 0 THEN [sm EXCEPT !.alphaTarget = DragAlphaTarget, !.running = TRUE] ELSE sm

(* Mutant of dragended: the alpha target is left where the drag put it. *)
dragendedKeepTarget(sm, n) == sm

(* if (!event.active) simulation.alphaTarget(0) *)
dragended(sm, n) ==
    IF n = 0 THEN [sm EXCEPT !.alphaTarget = 0] ELSE sm

DragStart(d) ==
    /\ UIShown
    /\ drawn.built
    /\ d \in Range(drawn.nodes)
    /\ LET g == [node |-> d, current |-> TRUE]
       IN /\ g \notin gestures
          /\ gestures' = gestures \cup {g}
          /\ sim' = dragstarted(sim, active(gestures, g))
    /\ pin' = [pin EXCEPT ![d] = pos[d]]
    /\ UNCHANGED <<graphData, loading, error, logged, mounted, crashed,
                   categoryFilters, searchTerm, selectedNode, connectedNodes,
                   connPending, renderPending, drawn, orphans, transform, viewport,
                   zooms, pos, lastEnded, paths, loads, clickTurn,
                   githubUrl, requests, selectedFile, openedFiles>>

DragMove(g, point) ==
    /\ g \in gestures
    /\ pin[g.node] # point
    /\ pin' = [pin EXCEPT ![g.node] = point]
    /\ UNCHANGED <<graphData, loading, error, logged, mounted, crashed,
                   categoryFilters, searchTerm, selectedNode, connectedNodes,
                   connPending, renderPending, drawn, sim, orphans, transform,
                   viewport, zooms, pos, gestures, lastEnded, paths, loads,
                   clickTurn,
                   githubUrl, requests, selectedFile, openedFiles>>

(* The simulation a gesture bound by an earlier render closed over was
   stopped by that render's cleanup; its alphaTarget is read by nothing. *)
DragEnd(g) ==
    /\ g \in gestures
    /\ gestures' = gestures \ {g}
    /\ sim' = IF g.current THEN dragended(sim, active(gestures, g)) ELSE sim
    /\ pin' = [pin EXCEPT ![g.node] = NoPos]
    /\ lastEnded' = [node |-> g.node, at |-> pos[g.node]]
    /\ UNCHANGED <<graphData, loading, error, logged, mounted, crashed,
                   categoryFilters, searchTerm, selectedNode, connectedNodes,
                   connPending, renderPending, drawn, orphans, transform, viewport,
                   zooms, pos, paths, loads, clickTurn,
                   githubUrl, requests, selectedFile, openedFiles>>

(* The end of a touch gesture bound by an earlier render.  d3-drag listens
   for touchmove and touchend on the g.node element itself (for the mouse, on
   the window); the render effect has removed that element and its circle and
   text, each from its parent (svg.selectAll("*").remove(), graph.tsx:383), so
   the events of the finger, whose target is the circle or the text, reach no
   handler: the gesture is over and "end" was never called. *)
TouchEndLost(g) ==
    /\ g \in gestures
    /\ ~g.current
    /\ gestures' = gestures \ {g}
    /\ UNCHANGED <<graphData, loading, error, logged, mounted, crashed,
                   categoryFilters, searchTerm, selectedNode, connectedNodes,
                   connPending, renderPending, drawn, sim, orphans, transform,
                   viewport, zooms, pos, pin, lastEnded, paths, loads, clickTurn,
                   githubUrl, requests, selectedFile, openedFiles>>

(* The zoom behaviour of the last render, scaleExtent([0.1, 4]): graph.tsx:393-399 *)
MinScale == 100

MaxScale == 4000

(* Mutant of clampScale: the scale is not limited. *)
clampScaleNot(k) == k

clampScale(k) == IF k < MinScale THEN MinScale ELSE IF k > MaxScale THEN MaxScale ELSE k

(* A wheel or double-click zoom by factor f centred on the pointer position
   p: the scale is clamped and the point under the pointer stays where it is. *)
zoomed(t, f, p) ==
    LET k == clampScale((t.k * f[1]) \div f[2])
    IN [x |-> p[1] - ((p[1] - t.x) * k) \div t.k,
        y |-> p[2] - ((p[2] - t.y) * k) \div t.k,
        k |-> k]

Zoom(f, p) ==
    /\ UIShown
    /\ drawn.built
    /\ zooms < MaxZooms
    /\ transform' = zoomed(transform, f, p)
    /\ zooms' = zooms + 1
    /\ UNCHANGED <<graphData, loading, error, logged, mounted, crashed,
                   categoryFilters, searchTerm, selectedNode, connectedNodes,
                   connPending, renderPending, drawn, sim, orphans, viewport,
                   pos, pin, gestures, lastEnded, paths, loads, clickTurn,
                   githubUrl, requests, selectedFile, openedFiles>>

(* A drag on the background moves the view. *)
Pan(m) ==
    /\ UIShown
    /\ drawn.built
    /\ zooms < MaxZooms
    /\ transform' = [transform EXCEPT !.x = @ + m[1], !.y = @ + m[2]]
    /\ zooms' = zooms + 1
    /\ UNCHANGED <<graphData, loading, error, logged, mounted, crashed,
                   categoryFilters, searchTerm, selectedNode, connectedNodes,
                   connPending, renderPending, drawn, sim, orphans, viewport,
                   pos, pin, gestures, lastEnded, paths, loads, clickTurn,
                   githubUrl, requests, selectedFile, openedFiles>>

(* The window is resized; nothing in the component listens. *)
Resize(vp) ==
    /\ mounted
    /\ vp # viewport
    /\ viewport' = vp
    /\ UNCHANGED <<graphData, loading, error, logged, mounted, crashed,
                   categoryFilters, searchTerm, selectedNode, connectedNodes,
                   connPending, renderPending, drawn, sim, orphans, transform,
                   zooms, pos, pin, gestures, lastEnded, paths, loads, clickTurn,
                   githubUrl, requests, selectedFile, openedFiles>>

(* Loads, filter changes, clicks and effects.  Tick is left out of this
   specification: it changes pos, paths and alpha only, which no action here
   reads.  No action here reads a node's color: Math.random() stays below 1/9. *)
Next ==
    \/ \E r \in requests : \E p \in GraphPayloads : \E draw \in ColorDraws(p, 1) :
          LoadData(r, p, draw)
    \/ requests = {} /\ \E u \in Urls : SetGithubUrl(u)
    \/ \E n \in Range(graphData.nodes) : ToggleCategory(n.category)
    \/ \E term \in SearchTerms : SetSearchTerm(term)
    \/ \E d \in Range(drawn.nodes) : NodeClickGraph(d)
    \/ FlushEffects

Spec == Init /\ [][Next]_vars

(* alpha after n ticks of a new simulation that nothing reheats. *)
RECURSIVE alphaAfter(_)
alphaAfter(n) == IF n = 0 THEN InitialAlpha ELSE alphaStep(alphaAfter(n - 1), 0)

(* The simulation ticking under loads and filter changes, each simulation for
   its first MaxHotTicks ticks: the link paths do not read alpha.  Clicks are
   left out of this specification: they change the selection only, which the
   link paths do not read. *)
NextTick ==
    \/ \E r \in requests : \E p \in GraphPayloads : \E draw \in ColorDraws(p, 1) :
          LoadData(r, p, draw)
    \/ requests = {} /\ \E u \in Urls : SetGithubUrl(u)
    \/ \E n \in Range(graphData.nodes) : ToggleCategory(n.category)
    \/ \E term \in SearchTerms : SetSearchTerm(term)
    \/ FlushEffects
    \/ sim.alpha > alphaAfter(MaxHotTicks) /\ Tick

SpecTick == Init /\ [][NextTick]_vars

(* The link force over config, types and other nodes, under loads and filter
   changes. *)
NextForce ==
    \/ \E r \in requests : \E p \in ForcePayloads : \E draw \in ColorDraws(p, 1) :
          LoadData(r, p, draw)
    \/ requests = {} /\ \E u \in Urls : SetGithubUrl(u)
    \/ \E n \in Range(graphData.nodes) : ToggleCategory(n.category)
    \/ \E term \in SearchTerms : SetSearchTerm(term)
    \/ FlushEffects

SpecForce == Init /\ [][NextForce]_vars

(* The life of the simulations of a one-node graph: loads that succeed or
   fail, selection and filter changes, drags, and unmount. *)
NextLife ==
    \/ \E r \in requests : \E p \in SimPayloads : \E draw \in ColorDraws(p, 1) :
          LoadData(r, p, draw)
    \/ requests = {} /\ \E u \in Urls : SetGithubUrl(u)
    \/ \E r \in requests : FetchFailed(r)
    \/ \E n \in Range(graphData.nodes) : ToggleCategory(n.category)
    \/ \E term \in SearchTerms : SetSearchTerm(term)
    \/ \E d \in Range(drawn.nodes) : NodeClickGraph(d)
    \/ FlushEffects
    \/ \E d \in Range(drawn.nodes) : DragStart(d)
    \/ \E g \in gestures : DragEnd(g)
    \/ Unmount

SpecLife == Init /\ [][NextLife]_vars

(* One node under the simulation from its construction until it settles,
   dragged and released. *)
NextSim ==
    \/ \E r \in requests : \E p \in SimPayloads : \E draw \in ColorDraws(p, 1) :
          LoadData(r, p, draw)
    \/ requests = {} /\ \E u \in Urls : SetGithubUrl(u)
    \/ FlushEffects
    \/ Tick
    \/ \E d \in Range(drawn.nodes) : DragStart(d)
    \/ \E g \in gestures : \E point \in PointerPoints : DragMove(g, point)
    \/ \E g \in gestures : DragEnd(g)

SpecSim == Init /\ [][NextSim]_vars

(* The alpha of the simulation under loads, ticks, and drags that start and
   end: the pointer's moves are left out, they change pin only, which alpha
   does not read.  The timer of a running simulation keeps firing. *)
NextSettle ==
    \/ \E r \in requests : \E p \in SimPayloads : \E draw \in ColorDraws(p, 1) :
          LoadData(r, p, draw)
    \/ requests = {} /\ \E u \in Urls : SetGithubUrl(u)
    \/ FlushEffects
    \/ Tick
    \/ \E d \in Range(drawn.nodes) : DragStart(d)
    \/ \E g \in gestures : DragEnd(g)

FairSettle == Init /\ [][NextSettle]_vars /\ WF_vars(Tick)

(* The node of a one-node graph under ticks, drags with pointer moves,
   clicks and filter changes, each simulation for its first MaxHotTicks
   ticks; the data is loaded once. *)
NextMove ==
    \/ \E r \in requests : \E p \in SimPayloads : \E draw \in ColorDraws(p, 1) :
          LoadData(r, p, draw)
    \/ \E n \in Range(graphData.nodes) : ToggleCategory(n.category)
    \/ \E term \in SearchTerms : SetSearchTerm(term)
    \/ \E d \in Range(drawn.nodes) : NodeClickGraph(d)
    \/ FlushEffects
    \/ sim.alpha > alphaAfter(MaxHotTicks) /\ Tick
    \/ \E d \in Range(drawn.nodes) : DragStart(d)
    \/ \E g \in gestures : \E point \in PointerPoints : DragMove(g, point)
    \/ \E g \in gestures : DragEnd(g)

SpecMove == Init /\ [][NextMove]_vars

(* The alpha of the simulation of a one-node graph from its construction
   until it settles, under clicks and filter changes, with no drag; the data
   is loaded once. *)
NextReheat ==
    \/ \E r \in requests : \E p \in SimPayloads : \E draw \in ColorDraws(p, 1) :
          LoadData(r, p, draw)
    \/ \E n \in Range(graphData.nodes) : ToggleCategory(n.category)
    \/ \E term \in SearchTerms : SetSearchTerm(term)
    \/ \E d \in Range(drawn.nodes) : NodeClickGraph(d)
    \/ FlushEffects
    \/ Tick

SpecReheat == Init /\ [][NextReheat]_vars

(* The opened-file tabs under node clicks, clicks in the Connected Files
   list, file references of the analysis panel, tab clicks and tab closes; the
   data is loaded once. *)
NextFiles ==
    \/ \E r \in requests : \E p \in FilePayloads : \E draw \in ColorDraws(p, 1) :
          LoadData(r, p, draw)
    \/ FlushEffects
    \/ \E d \in Range(drawn.nodes) : NodeClick(d)
    \/ \E node \in Range(connectedNodes) : ConnectedFileClick(node)
    \/ \E file \in FileRefs : OpenFileReference(file)
    \/ \E file \in Range(openedFiles) : TabClick(file)
    \/ \E file \in Range(openedFiles) : TabClose(file)

SpecFiles == Init /\ [][NextFiles]_vars

(* The node of a one-node graph dragged with a finger, under ticks, clicks
   and filter changes: the moves and the end of a gesture reach the handlers
   as long as the element it started on is drawn. *)
NextTouch ==
    \/ \E r \in requests : \E p \in SimPayloads : \E draw \in ColorDraws(p, 1) :
          LoadData(r, p, draw)
    \/ \E n \in Range(graphData.nodes) : ToggleCategory(n.category)
    \/ \E term \in SearchTerms : SetSearchTerm(term)
    \/ \E d \in Range(drawn.nodes) : NodeClickGraph(d)
    \/ FlushEffects
    \/ sim.alpha > alphaAfter(MaxHotTicks) /\ Tick
    \/ \E d \in Range(drawn.nodes) : DragStart(d)
    \/ \E g \in gestures : \E point \in PointerPoints : g.current /\ DragMove(g, point)
    \/ \E g \in gestures : g.current /\ DragEnd(g)
    \/ \E g \in gestures : TouchEndLost(g)

SpecTouch == Init /\ [][NextTouch]_vars

(* The view under zoom and pan gestures, clicks, filter changes and loads. *)
NextView ==
    \/ \E r \in requests : \E p \in SimPayloads : \E draw \in ColorDraws(p, 1) :
          LoadData(r, p, draw)
    \/ requests = {} /\ \E u \in Urls : SetGithubUrl(u)
    \/ \E n \in Range(graphData.nodes) : ToggleCategory(n.category)
    \/ \E term \in SearchTerms : SetSearchTerm(term)
    \/ \E d \in Range(drawn.nodes) : NodeClickGraph(d)
    \/ FlushEffects
    \/ \E f \in ZoomFactors : \E p \in Pivots : Zoom(f, p)
    \/ \E m \in PanMoves : Pan(m)
    \/ \E vp \in Viewports : Resize(vp)

SpecView == Init /\ [][NextView]_vars

(* The fetches of fetchGraphData under changes of githubUrl: any number of
   them in flight, completed in any order, each with the payload of its url or
   with a failure. *)
NextFetch ==
    \/ \E r \in requests : \E draw \in ColorDraws(UrlPayload[r.url], 2) :
          LoadData(r, UrlPayload[r.url], draw)
    \/ \E r \in requests : FetchFailed(r)
    \/ \E u \in Urls : SetGithubUrl(u)
    \/ \E d \in Range(drawn.nodes) : NodeClickGraph(d)
    \/ FlushEffects

SpecFetch == Init /\ [][NextFetch]_vars

(* The responses of the service, well-formed and malformed, with every color
   Math.random() can draw. *)
NextLoad ==
    \/ \E r \in requests : \E p \in LoadPayloads :
          \E draw \in ColorDraws(p, Len(colorPalette)) : LoadData(r, p, draw)
    \/ requests = {} /\ \E u \in Urls : SetGithubUrl(u)
    \/ \E r \in requests : FetchFailed(r)
    \/ FlushEffects

SpecLoad == Init /\ [][NextLoad]_vars

----------------------------------------------------------------------------
(* Properties *)

NodeIds(data) == { n.id : n \in Range(data.nodes) }

(* C1: every visible link has two defined endpoints whose ids are ids of
   visible nodes, for the current data, filters and search term; and the link
   force of the last render got only links it resolved to simulation nodes. *)
C1_VisibleLinksResolvable ==
    /\ \A l \in Range(getFilteredLinks) :
          /\ l.source # Num(Undefined)
          /\ l.target # Num(Undefined)
          /\ getNodeId(l.source) \in { n.id : n \in Range(getFilteredNodes) }
          /\ getNodeId(l.target) \in { n.id : n \in Range(getFilteredNodes) }
    /\ \A l \in Range(drawn.links) :
          /\ l.source.resolved /\ l.source.node \in Range(drawn.nodes)
          /\ l.target.resolved /\ l.target.node \in Range(drawn.nodes)

(* C1 witness: a drawn graph with visible links, whose data holds a link with
   an undefined endpoint, a link from an id of no node and a link to a hidden
   node, none of them visible. *)
C1_Witness ==
    /\ drawn.built /\ ~renderPending
    /\ Len(drawn.links) > 0
    /\ \E l \in Range(graphData.links) :
          l.target = Num(Undefined) /\ l \notin Range(getFilteredLinks)
    /\ \E l \in Range(graphData.links) :
          /\ l.source # Num(Undefined)
          /\ getNodeId(l.source) \notin NodeIds(graphData)
          /\ l \notin Range(getFilteredLinks)
    /\ \E l \in Range(graphData.links) :
          /\ getNodeId(l.target) \in NodeIds(graphData)
          /\ getNodeId(l.target) \notin { n.id : n \in Range(getFilteredNodes) }
          /\ l \notin Range(getFilteredLinks)

(* The search test as the claim words it: the term is empty or is a
   case-insensitive substring of the name or of the path. *)
SearchMatches(n, term) ==
    \/ term = <<>>
    \/ includes(toLowerCase(n.name), toLowerCase(term))
    \/ includes(toLowerCase(n.path), toLowerCase(term))

FlagEnabled(cf, cat) == cat \in DOMAIN cf /\ cf[cat]

FlagNotDisabled(cf, cat) == cat \notin DOMAIN cf \/ cf[cat]

SearchIndependentOfFlags ==
    \A n \in Range(graphData.nodes) :
        n.category # NoCat =>
            \A flag \in BOOLEAN :
                (n \in Range(FilteredNodes(graphData,
                                          [c \in DOMAIN categoryFilters \cup {n.category} |->
                                              IF c = n.category THEN flag ELSE categoryFilters[c]],
                                          searchTerm)))
                <=> (flag /\ SearchMatches(n, searchTerm))

(* C2 as stated: getFilteredNodes returns exactly the nodes that have a
   category whose flag is enabled in the filter state and that pass the search
   test, and the search test does not depend on the flags. *)
C2_ExactlyEnabledAndMatching ==
    /\ LET visible(n) == /\ n.category # NoCat
                         /\ FlagEnabled(categoryFilters, n.category)
                         /\ SearchMatches(n, searchTerm)
       IN getFilteredNodes = SelectSeq(graphData.nodes, visible)
    /\ SearchIndependentOfFlags

(* C2 amended: getFilteredNodes returns exactly the nodes that have a category
   whose flag is not disabled (enabled, or absent from the filter state) and
   that pass the search test, and the search test does not depend on the flags. *)
C2_ExactlyNotDisabledAndMatching ==
    /\ LET visible(n) == /\ n.category # NoCat
                         /\ FlagNotDisabled(categoryFilters, n.category)
                         /\ SearchMatches(n, searchTerm)
       IN getFilteredNodes = SelectSeq(graphData.nodes, visible)
    /\ SearchIndependentOfFlags

(* C2 witness: under a non-empty search term a node is returned, a node whose
   flag is not disabled is left out by the search test, and a node that passes
   the search test is left out by its disabled flag. *)
C2_Witness ==
    /\ searchTerm # <<>>
    /\ Len(getFilteredNodes) > 0
    /\ \E n \in Range(graphData.nodes) :
          /\ n.category # NoCat
          /\ FlagNotDisabled(categoryFilters, n.category)
          /\ ~SearchMatches(n, searchTerm)
          /\ n \notin Range(getFilteredNodes)
    /\ \E n \in Range(graphData.nodes) :
          /\ SearchMatches(n, searchTerm)
          /\ n.category \in DOMAIN categoryFilters
          /\ ~categoryFilters[n.category]
          /\ n \notin Range(getFilteredNodes)

(* C3: for every category of the loaded nodes, toggling it twice gives the
   visible node set there was before the first toggle. *)
C3_ToggleTwiceSameNodes ==
    \A cat \in { n.category : n \in Range(graphData.nodes) } :
        FilteredNodes(graphData, toggled(toggled(categoryFilters, cat), cat), searchTerm)
            = getFilteredNodes

(* C4: a click on a drawn node when nothing is selected selects it, a click
   on a node other than the selected one makes the clicked node the selection,
   and a click on the selected node clears the selection. *)
C4_SelectionMachine ==
    [][\A d \in Range(drawn.nodes) :
          NodeClickGraph(d) =>
              selectedNode' = IF selectedNode = d THEN NoNode ELSE d]_vars

(* C5: a click on the selected node leaves nothing selected, and with nothing
   selected the connected set is empty once the connected-nodes effect has run. *)
C5_ReclickReturnsToIdle ==
    /\ [][\A d \in Range(drawn.nodes) :
             (NodeClickGraph(d) /\ selectedNode # NoNode /\ selectedNode = d)
                 => selectedNode' = NoNode]_vars
    /\ []((selectedNode = NoNode /\ ~connPending) => connectedNodes = <<>>)

(* C6: a load that replaces the graph data leaves nothing selected, and the
   connected set is empty once the connected-nodes effect has run for it. *)
C6_ReloadReturnsToIdle ==
    /\ [][graphData'.gen # graphData.gen => selectedNode' = NoNode]_vars
    /\ []((selectedNode = NoNode /\ ~connPending) => connectedNodes = <<>>)

(* The other endpoints of the visible links that touch the selected node's id. *)
Neighbours ==
    IF selectedNode = NoNode THEN {}
    ELSE { n \in Range(graphData.nodes) :
             \E l \in Range(getFilteredLinks) :
                 \/ getNodeId(l.source) = selectedNode.id /\ getNodeId(l.target) = n.id
                 \/ getNodeId(l.target) = selectedNode.id /\ getNodeId(l.source) = n.id }

(* C7: once the connected-nodes effect has run for the current selection,
   data, filters and search term, connectedNodes holds exactly the other
   endpoints of the visible links touching the selected node's id (none when
   nothing is selected); and every change of the selected node, the graph
   data, a category flag or the search term makes the effect pending. *)
C7_ConnectedNodesExact ==
    /\ [](~connPending =>
            /\ Range(connectedNodes) = Neighbours
            /\ \A i, j \in DOMAIN connectedNodes : i # j => connectedNodes[i] # connectedNodes[j])
    /\ [][(\/ selectedNode' # selectedNode
            \/ graphData'.gen # graphData.gen
            \/ categoryFilters' # categoryFilters
            \/ searchTerm' # searchTerm) => connPending']_vars

(* C7 witness: the effect has run, a node is selected and has a neighbour in
   the connected set, and a node it is linked to in the data is hidden and so
   is not in the set. *)
C7_Witness ==
    /\ ~connPending
    /\ selectedNode # NoNode
    /\ Len(connectedNodes) > 0
    /\ \E l \in Range(graphData.links) :
          /\ getNodeId(l.source) = selectedNode.id
          /\ getNodeId(l.target) \in NodeIds(graphData)
          /\ getNodeId(l.target) \notin { n.id : n \in Range(connectedNodes) }

(* C8: in the last render, with a selected node every drawn node is exactly
   one of highlighted and faded, highlighted iff it is the selected node or is
   in the connected set of that render, and every drawn link is exactly one of
   highlighted and faded, highlighted iff its source id or its target id is the
   selected node's id; with no selected node nothing is highlighted or faded. *)
C8_HighlightRule ==
    LET sel == drawn.selectedNode
        conn == { c.id : c \in Range(drawn.connectedNodes) }
    IN IF sel # NoNode
       THEN /\ \A n \in Range(drawn.nodes) :
                 /\ (n \in drawn.nodeHighlighted) # (n \in drawn.nodeFaded)
                 /\ (n \in drawn.nodeHighlighted) <=> (n.id = sel.id \/ n.id \in conn)
            /\ \A l \in Range(drawn.links) :
                 /\ (l.lid \in drawn.linkHighlighted) # (l.lid \in drawn.linkFaded)
                 /\ (l.lid \in drawn.linkHighlighted)
                        <=> (sel.id \in {getNodeId(l.source), getNodeId(l.target)})
       ELSE /\ drawn.nodeHighlighted = {} /\ drawn.nodeFaded = {}
            /\ drawn.linkHighlighted = {} /\ drawn.linkFaded = {}

(* C8 witness: a render with a selected node in which a connected node other
   than the selected one is highlighted, a node is faded, a link is highlighted
   and a link is faded. *)
C8_Witness ==
    /\ drawn.built
    /\ drawn.selectedNode # NoNode
    /\ \E n \in drawn.nodeHighlighted : n.id # drawn.selectedNode.id
    /\ drawn.nodeFaded # {}
    /\ drawn.linkHighlighted # {}
    /\ drawn.linkFaded # {}

(* The indices, in the drawn link array, of the links that join the same
   unordered node pair as the link at index i. *)
PairGroup(i) ==
    { j \in DOMAIN drawn.links :
        {getNodeId(drawn.links[j].source), getNodeId(drawn.links[j].target)}
          = {getNodeId(drawn.links[i].source), getNodeId(drawn.links[i].target)} }

PosOf(i) ==
    LET n == findById(drawn.nodes, i) IN pos[n]

(* C9: after a tick, the router's group of every drawn link is the set of
   drawn links on the same unordered node pair; a link alone in its group has
   the straight segment from its source's position to its target's position as
   its path, and a link in a larger group has a quadratic curve between them. *)
C9_PathByPairGroup ==
    paths # <<>> =>
        \A i \in DOMAIN drawn.links :
            LET d == drawn.links[i]
            IN /\ Range(multipleLinks(d, drawn.links)) = { drawn.links[j] : j \in PairGroup(i) }
               /\ Len(multipleLinks(d, drawn.links)) = Cardinality(PairGroup(i))
               /\ paths[i].from = PosOf(getNodeId(d.source))
               /\ paths[i].to = PosOf(getNodeId(d.target))
               /\ Cardinality(PairGroup(i)) = 1 => paths[i].kind = "L"
               /\ Cardinality(PairGroup(i)) > 1 => paths[i].kind = "Q"

(* C9 witness: after a tick a link alone on its pair is drawn straight between
   two different points, and a link whose group holds a link of the opposite
   direction is drawn as a curve. *)
C9_Witness ==
    /\ paths # <<>>
    /\ \E i \in DOMAIN drawn.links :
          paths[i].kind = "L" /\ paths[i].from # paths[i].to
    /\ \E i \in DOMAIN drawn.links :
          /\ paths[i].kind = "Q"
          /\ \E j \in PairGroup(i) :
                getNodeId(drawn.links[j].source) = getNodeId(drawn.links[i].target)
                /\ getNodeId(drawn.links[j].source) # getNodeId(drawn.links[j].target)

(* Twice the midpoint offset of the path of the drawn link at index i. *)
TwiceOffsetX(i) == 2 * paths[i].ctrl[1] - (paths[i].from[1] + paths[i].to[1])

TwiceOffsetY(i) == 2 * paths[i].ctrl[2] - (paths[i].from[2] + paths[i].to[2])

RECURSIVE SumTwiceOffsets(_)
SumTwiceOffsets(group) ==
    IF group = {} THEN 0
    ELSE LET i == CHOOSE j \in group : TRUE
         IN TwiceOffsetX(i) + SumTwiceOffsets(group \ {i})

(* C10: after a tick, in a group of k > 1 drawn links on one unordered pair
   the member at position i (in link array order, from 0) has midpoint offset
   (i - (k-1)/2) * 20 on both axes; the offsets of a group are pairwise
   distinct and sum to zero, and for k = 2 they are -10 and +10. *)
C10_GroupOffsets ==
    paths # <<>> =>
        \A i \in DOMAIN drawn.links :
            LET group == PairGroup(i)
                k == Cardinality(group)
                position == Cardinality({ j \in group : j < i })
            IN k > 1 =>
                /\ TwiceOffsetX(i) = (2 * position - (k - 1)) * 20
                /\ TwiceOffsetY(i) = TwiceOffsetX(i)
                /\ \A j \in group \ {i} : TwiceOffsetX(j) # TwiceOffsetX(i)
                /\ SumTwiceOffsets(group) = 0
                /\ k = 2 => { TwiceOffsetX(j) : j \in group } = {-20, 20}

(* C10 witness: after a tick a group of two and a group of three are drawn. *)
C10_Witness ==
    /\ paths # <<>>
    /\ \E i \in DOMAIN drawn.links : Cardinality(PairGroup(i)) = 2
    /\ \E i \in DOMAIN drawn.links : Cardinality(PairGroup(i)) = 3

(* C11: the rest distance the link force holds for every link it was given
   is 180 if the link's source or target node has category "config",
   otherwise 150 if one of them has category "types", otherwise 120; so a link
   joining a config node and a types node has 180. *)
C11_LinkDistance ==
    drawn.built =>
        /\ Len(sim.distance) = Len(drawn.links)
        /\ \A i \in DOMAIN drawn.links :
              LET categories == { drawn.links[i].source.node.category,
                                  drawn.links[i].target.node.category }
              IN sim.distance[i] = IF "config" \in categories THEN 180
                                   ELSE IF "types" \in categories THEN 150
                                   ELSE 120

(* C11 witness: a simulation whose link force holds a link between a config
   node and a types node, a link between a config node and another node, a link
   between a types node and another node, and a link touching neither. *)
C11_Witness ==
    /\ drawn.built
    /\ \E i \in DOMAIN drawn.links :
          { drawn.links[i].source.node.category,
            drawn.links[i].target.node.category } = {"config", "types"}
    /\ \E i \in DOMAIN drawn.links :
          { drawn.links[i].source.node.category,
            drawn.links[i].target.node.category } = {"config", "component"}
    /\ \E i \in DOMAIN drawn.links :
          { drawn.links[i].source.node.category,
            drawn.links[i].target.node.category } = {"types", "component"}
    /\ \E i \in DOMAIN drawn.links :
          { drawn.links[i].source.node.category,
            drawn.links[i].target.node.category } = {"component"}
    /\ { sim.distance[i] : i \in DOMAIN sim.distance } = {120, 150, 180}

(* C12: on every tick every simulation node that is pinned gets its pinned
   position as its position, whatever the forces computed; and the end of a
   drag leaves its node without a pin, so that later ticks move it again. *)
C12_PinnedPositionAuthoritative ==
    /\ [][Tick => \A n \in Range(drawn.nodes) :
                     pin[n] # NoPos => pos'[n] = pin[n]]_vars
    /\ [][\A g \in gestures : DragEnd(g) => pin'[g.node] = NoPos]_vars

(* C12 witness: a node was dragged to a pointer position no force moves a node
   to, a tick put it there, the drag ended with the node there, and a later
   tick has moved the node, now without a pin, somewhere else. *)
C12_Witness ==
    \E n \in Range(drawn.nodes) :
        /\ lastEnded.node = n
        /\ lastEnded.at \in PointerPoints \ Points
        /\ pin[n] = NoPos
        /\ pos[n] \in Points
        /\ pos[n] # lastEnded.at

(* C13: for a drag gesture on a node with no other gesture in progress: the
   start pins the node at its current position, sets the alpha target to 0.3
   and leaves the tick loop running, also when it had settled; every move makes
   the pointer position the pin; the end clears the pin and sets the alpha
   target to 0. *)
C13_DragGesture ==
    /\ [][\A d \in Range(drawn.nodes) :
             (DragStart(d) /\ gestures = {}) =>
                 /\ pin'[d] = pos[d] /\ pos'[d] = pos[d]
                 /\ sim'.alphaTarget = 300
                 /\ sim'.running]_vars
    /\ [][\A g \in gestures : \A point \in PointerPoints :
             (DragMove(g, point) /\ gestures = {g}) => pin'[g.node] = point]_vars
    /\ [][\A g \in gestures :
             (DragEnd(g) /\ gestures = {g}) =>
                 /\ pin'[g.node] = NoPos
                 /\ sim'.alphaTarget = 0]_vars

(* C13 witness: after an earlier gesture has ended, a gesture that started on
   a settled simulation (alpha is still below alphaMin) has the tick loop
   running with alpha target 0.3, and a move has put the pin on the pointer. *)
C13_Witness ==
    \E g \in gestures :
        /\ gestures = {g}
        /\ g.current
        /\ lastEnded.node = g.node
        /\ sim.running
        /\ sim.alpha < alphaMin
        /\ sim.alphaTarget = 300
        /\ pin[g.node] \in PointerPoints \ Points
        /\ pin[g.node] # pos[g.node]

(* C14: no simulation constructed by an earlier run of the render effect is
   still running when a later one is constructed, so the simulation of the last
   run is the only one whose tick loop can be running; and no tick loop is
   running once the component is unmounted. *)
C14_OneSimulation ==
    /\ orphans = 0
    /\ ~mounted => ~sim.running

(* C14 witness: the component was unmounted after a second load, a rendered
   selection and a drag, with the last simulation stopped. *)
C14_Witness ==
    /\ ~mounted
    /\ ~crashed
    /\ drawn.built
    /\ drawn.data.gen = 2
    /\ drawn.selectedNode # NoNode
    /\ lastEnded.node \in Range(drawn.nodes)
    /\ sim.alphaTarget = 0
    /\ ~sim.running

(* C15: once the view is set up, the viewport transform changes only in a
   zoom or pan gesture: a click on a node, a category toggle, a change of the
   search term, a data load and the effects they make run leave its translate
   x, translate y and scale as they are. *)
C15_TransformOnlyByGestures ==
    [][(drawn.built /\ transform' # transform) =>
          \/ \E f \in ZoomFactors : \E p \in Pivots : Zoom(f, p)
          \/ \E m \in PanMoves : Pan(m)]_vars

(* C16: when the view is first set up the viewport transform is translate
   (width / 2, height / 2) with scale 0.8, and whatever zoom and pan gestures
   follow, the scale stays between 0.1 and 4. *)
C16_InitialTransformAndScaleRange ==
    /\ [][(~drawn.built /\ drawn'.built) =>
             transform' = [x |-> viewport[1] \div 2, y |-> viewport[2] \div 2,
                           k |-> 800]]_vars
    /\ [](drawn.built => (transform.k >= 100 /\ transform.k <= 4000))

(* C16 witness: a zoom in by 8 about the centre of the view has been stopped
   at scale 4, and a pan has then moved the view. *)
C16_Witness ==
    /\ drawn.built
    /\ zooms > 1
    /\ transform.k = 4000
    /\ transform.x = 400 + 40
    /\ transform.y = 300 - 20

(* C17 as stated: when the node collection or the link collection handed to
   the simulation is empty, the simulation is idle and no tick happens. *)
C17_NoTickWhenEmpty ==
    /\ []((drawn.built /\ (drawn.nodes = <<>> \/ drawn.links = <<>>)) => ~sim.running)
    /\ [][(drawn.nodes = <<>> \/ drawn.links = <<>>) => ~Tick]_vars

(* C17 amended: a simulation is created running at full alpha also for an
   empty node or link collection, and its ticks lower alpha like any other;
   with no links a tick draws no link path, and with no nodes it also changes
   no position. *)
C17_EmptyCollectionsStillTick ==
    /\ [][(renderPending /\ ~renderPending' /\ drawn'.built
           /\ (drawn'.nodes = <<>> \/ drawn'.links = <<>>))
          => (sim'.running /\ sim'.alpha = InitialAlpha)]_vars
    /\ [][(Tick /\ (drawn.nodes = <<>> \/ drawn.links = <<>>))
          => /\ sim'.alpha < sim.alpha
             /\ paths' = <<>>
             /\ (drawn.nodes = <<>> => pos' = pos)]_vars

(* C17 witness: the simulation of a view without any node has ticked and is
   still running. *)
C17_Witness ==
    /\ drawn.built
    /\ drawn.nodes = <<>>
    /\ sim.running
    /\ sim.alpha < InitialAlpha

(* A view with nodes but without links whose simulation has ticked and moved
   a node. *)
C17_WitnessNoLinks ==
    /\ drawn.built
    /\ drawn.nodes # <<>>
    /\ drawn.links = <<>>
    /\ sim.alpha < InitialAlpha
    /\ \E n \in Range(drawn.nodes) : pos[n] # NoPos /\ pos[n] # <<0, 0>>

(* C18 as stated: no load crashes the component, and after a load whose links
   field is missing or is not an array no node and no link is visible and the
   condition has been logged or put in error; a load whose nodes field is
   missing is logged or put in error. *)
C18_MalformedPayloadFallsBack ==
    /\ ~crashed
    /\ (graphData # NullData /\ graphData.linksShape # "array") =>
          /\ getFilteredNodes = <<>>
          /\ drawn.nodes = <<>> /\ drawn.links = <<>>
          /\ (logged \/ error # NoError)
    /\ error = "TypeError" => (logged /\ ~UIShown)

(* A payload without a links field is shown as a graph of its nodes, and
   nothing was logged or put in error. *)
C18_MissingLinksShown ==
    /\ ~crashed /\ UIShown
    /\ graphData # NullData /\ graphData.linksShape = "missing"
    /\ drawn.built /\ drawn.nodes # <<>>
    /\ ~logged /\ error = NoError

(* The nodes of the data are well-formed and its links field is a
   non-array object, and the component has crashed: the throw came from an
   effect. *)
C18_CrashedOnLinksObject ==
    /\ crashed
    /\ graphData # NullData /\ graphData.linksShape = "object"
    /\ \A n \in Range(graphData.nodes) : n.category # UndefinedCat

(* graphData holds the nodes and links of payload p. *)
LoadedFrom(p) ==
    /\ graphData # NullData
    /\ Payloads[p].nodesShape = "array"
    /\ graphData.linksShape = Payloads[p].linksShape
    /\ DOMAIN graphData.links = DOMAIN Payloads[p].links
    /\ DOMAIN graphData.nodes = DOMAIN Payloads[p].nodes
    /\ \A i \in DOMAIN graphData.nodes :
          /\ graphData.nodes[i].id = Payloads[p].nodes[i].id
          /\ graphData.nodes[i].name = Payloads[p].nodes[i].name
          /\ graphData.nodes[i].category = Payloads[p].nodes[i].category

(* C19 as stated: after a load a node that was supplied with a color has that
   color, and every other node has a color of the palette. *)
C19_SuppliedColorKept ==
    \A p \in LoadPayloads :
        LoadedFrom(p) =>
            \A i \in DOMAIN graphData.nodes :
                IF Payloads[p].nodes[i].color # NoColor
                THEN graphData.nodes[i].color = Payloads[p].nodes[i].color
                ELSE graphData.nodes[i].color \in Range(colorPalette)

(* C19 amended: after a load every node has a color of the palette, whether
   or not it was supplied with one; a supplied color is replaced. *)
C19_EveryColorFromPalette ==
    graphData # NullData =>
        \A i \in DOMAIN graphData.nodes :
            graphData.nodes[i].color \in Range(colorPalette)

(* C19 witness: the payload whose first node came with the color #123456 is
   loaded; that node got the last color of the palette and the node without a
   color the first. *)
C19_Witness ==
    /\ LoadedFrom(5)
    /\ Payloads[5].nodes[1].color = "#123456"
    /\ Payloads[5].nodes[2].color = NoColor
    /\ graphData.nodes[1].color = colorPalette[9]
    /\ graphData.nodes[2].color = colorPalette[1]

(* A drag bound by the current render is in progress. *)
DragInProgress == \E g \in gestures : g.current

(* C20: with no drag in progress the alpha target is 0, every tick lowers
   alpha, a tick stops the loop exactly when alpha has fallen below the
   stopping threshold 0.001, and a running loop left to itself eventually
   stops; while a drag holds the alpha target at 0.3 the loop is running and
   no tick stops it.  Alpha is counted in thousandths: an alpha below the
   threshold is 0, which the tick of a loop that a drag restarted and
   released at once cannot lower further at this resolution. *)
C20_AlphaDecaysAndLoopStops ==
    /\ [](~DragInProgress => sim.alphaTarget = 0)
    /\ [][(Tick /\ ~DragInProgress) =>
             /\ sim'.alpha <= sim.alpha
             /\ (sim.alpha >= 1 => sim'.alpha < sim.alpha)]_vars
    /\ [][Tick => (sim'.running <=> sim'.alpha >= 1)]_vars
    /\ (sim.running /\ ~DragInProgress) ~> (~sim.running \/ DragInProgress)
    /\ [](DragInProgress => (sim.running /\ sim.alphaTarget = 300))
    /\ [][(Tick /\ sim.alphaTarget = 300) => sim'.running]_vars

(* C20 witness: the loop has stopped with alpha below the threshold after a
   drag was made and released, and no drag is in progress. *)
C20_Witness ==
    /\ drawn.built
    /\ ~sim.running
    /\ sim.alpha < 1
    /\ sim.alphaTarget = 0
    /\ gestures = {}
    /\ lastEnded # NoGesture

(* A drag is holding the alpha target at 0.3 and ticks have brought alpha
   down to it: the loop is still running. *)
C20_WitnessHeld ==
    /\ DragInProgress
    /\ sim.running
    /\ sim.alphaTarget = 300
    /\ sim.alpha = 300

(* A handler of the drag behaviour runs. *)
DragHandler ==
    \/ \E d \in Range(drawn.nodes) : DragStart(d)
    \/ \E g \in gestures : \E point \in PointerPoints : DragMove(g, point)
    \/ \E g \in gestures : DragEnd(g)

(* C21 as stated: a step that is neither a tick nor a drag handler leaves the
   position of every node that has one, and every pin, unchanged. *)
C21_PositionsOnlyByTickOrDrag ==
    [][(~Tick /\ ~DragHandler) =>
          \A n \in DOMAIN pos \cap DOMAIN pos' :
              /\ pos[n] # NoPos => pos'[n] = pos[n]
              /\ pin'[n] = pin[n]]_vars

(* C21 amended: a step that is neither a tick nor a drag handler leaves every
   pin unchanged and the position of every node that has one and is not
   pinned; the rebuild of the simulation puts a pinned node it holds at its
   pin and leaves any other pinned node where it is. *)
C21_PositionsOnlyByTickDragOrPin ==
    [][(~Tick /\ ~DragHandler) =>
          \A n \in DOMAIN pos \cap DOMAIN pos' :
              /\ pin'[n] = pin[n]
              /\ pos[n] # NoPos => (pos'[n] = pos[n] \/ pos'[n] = pin[n])
              /\ (pos[n] # NoPos /\ pin[n] = NoPos) => pos'[n] = pos[n]]_vars

(* C21 witness: the node was moved by a tick since its last release, and the
   simulation was built again for a selection, a search term or a filter
   change: it is at its first alpha, the node is not pinned and is where the
   tick left it, away from its place on the spiral. *)
C21_Witness ==
    /\ drawn.built /\ ~renderPending /\ ~connPending
    /\ sim.alpha = InitialAlpha
    /\ drawn.selectedNode # NoNode
    /\ \E n \in Range(drawn.nodes) :
          /\ pin[n] = NoPos
          /\ pos[n] = <<6, 2>>
          /\ InitPoint(1 + indexOf(drawn.nodes, n)) # pos[n]

(* The neighbours of the selected node over the visible links, for the
   current data, filters and search term. *)
VisibleNeighbourIds ==
    { getNodeId(l.target) : l \in { k \in Range(getFilteredLinks) :
                                      getNodeId(k.source) = selectedNode.id } }
    \cup
    { getNodeId(l.source) : l \in { k \in Range(getFilteredLinks) :
                                      getNodeId(k.target) = selectedNode.id } }

(* C22: whenever the render effect has drawn the graph with a selected node,
   the highlighted nodes are the drawn nodes that are the selected node or one
   of its neighbours over the drawn links, and every highlighted link has both
   endpoints highlighted. *)
C22_DrawUsesCurrentConnectedSet ==
    (drawn.built /\ drawn.selectedNode # NoNode) =>
        /\ { n.id : n \in drawn.nodeHighlighted } =
              { n.id : n \in { m \in Range(drawn.nodes) :
                    \/ m.id = drawn.selectedNode.id
                    \/ \E l \in Range(drawn.links) :
                          \/ /\ getNodeId(l.source) = drawn.selectedNode.id
                             /\ getNodeId(l.target) = m.id
                          \/ /\ getNodeId(l.target) = drawn.selectedNode.id
                             /\ getNodeId(l.source) = m.id } }
        /\ \A l \in Range(drawn.links) :
              l.lid \in drawn.linkHighlighted =>
                  /\ getNodeId(l.source) \in { n.id : n \in drawn.nodeHighlighted }
                  /\ getNodeId(l.target) \in { n.id : n \in drawn.nodeHighlighted }

(* A draw made for a new selection with the connected set of the selection
   before it: a link of the selected node is highlighted and its other end is
   faded. *)
C22_StaleDraw ==
    /\ drawn.built /\ drawn.selectedNode # NoNode
    /\ renderPending
    /\ \E l \in Range(drawn.links) :
          /\ l.lid \in drawn.linkHighlighted
          /\ \E n \in drawn.nodeFaded : n.id \in {getNodeId(l.source), getNodeId(l.target)}

(* Once both effects have run, the draw is the one of the current selection
   and connected set. *)
C22_SettledDrawCurrent ==
    (drawn.built /\ drawn.selectedNode # NoNode /\ ~renderPending /\ ~connPending
     /\ UIShown) =>
        /\ drawn.selectedNode = selectedNode
        /\ { n.id : n \in Range(drawn.connectedNodes) } = VisibleNeighbourIds

(* C23: a click on a drawn node toggles against the selection there is when
   the click is handled; so a click on the node that is selected, whatever the
   handler closed over, leaves no node selected. *)
C23_ToggleAgainstCurrentSelection ==
    [][\A d \in Range(drawn.nodes) :
          (NodeClickGraph(d) /\ selectedNode.id = d.id /\ selectedNode # NoNode)
              => selectedNode' = NoNode]_vars

(* Two clicks on the node were handled, the second with the handler bound
   before the first, and the node is selected. *)
C23_SecondClickSelectsAgain ==
    /\ clickTurn = 0
    /\ selectedNode # NoNode
    /\ drawn.built
    /\ drawn.selectedNode = NoNode
    /\ renderPending

(* graphData holds the response to a fetch for githubUrl u. *)
HoldsAnswerTo(u) ==
    /\ graphData # NullData
    /\ { n.id : n \in Range(graphData.nodes) } =
          { n.id : n \in Range(Payloads[UrlPayload[u]].nodes) }

(* C24: once no fetch is in flight and none has failed, the graph data held
   is the response to the current githubUrl. *)
C24_LatestResponseHeld ==
    (requests = {} /\ error = NoError /\ mounted) => HoldsAnswerTo(githubUrl)

(* Every fetch has completed, none has failed, and the data held answers the
   githubUrl before the current one. *)
C24_EarlierResponseHeld ==
    /\ requests = {}
    /\ error = NoError
    /\ githubUrl = 2
    /\ HoldsAnswerTo(1)
    /\ ~HoldsAnswerTo(2)

(* C25: loading is true whenever a fetch is in flight, and a fetch that
   succeeds leaves error null and the graph shown. *)
C25_LoadEndsErrorState ==
    [][/\ (mounted' /\ requests' # {}) => loading'
       /\ \A r \in requests : \A draw \in ColorDraws(UrlPayload[r.url], 2) :
             LoadData(r, UrlPayload[r.url], draw) =>
                 (error' = NoError /\ ~loading' /\ graphData' # NullData)]_vars

(* The fetch for the first githubUrl failed, the one for the second has
   succeeded, and the error screen is still shown. *)
C25_ErrorAfterSuccess ==
    /\ requests = {}
    /\ githubUrl = 2
    /\ HoldsAnswerTo(2)
    /\ error # NoError
    /\ ~UIShown

(* A fetch is in flight and the loading screen is not shown. *)
C25_FetchingNotLoading ==
    /\ requests # {}
    /\ ~loading
    /\ mounted

(* The selected node of the draw is a node of its data and not among the
   nodes it drew: a category toggle or a search term has hidden it. *)
DrawnSelectionHidden ==
    /\ drawn.built
    /\ drawn.selectedNode # NoNode
    /\ \E n \in Range(drawn.data.nodes) : n.id = drawn.selectedNode.id
    /\ \A n \in Range(drawn.nodes) : n.id # drawn.selectedNode.id

(* C26: in a draw whose selected node is hidden, the selection is the one
   kept in the state, every drawn node and every drawn link is marked faded
   and none is marked highlighted; and once the connected-nodes effect has run
   for a hidden selected node the connected set is empty. *)
C26_HiddenSelectionFadesAll ==
    /\ (UIShown /\ DrawnSelectionHidden) =>
          /\ drawn.nodeHighlighted = {}
          /\ drawn.nodeFaded = Range(drawn.nodes)
          /\ drawn.linkHighlighted = {}
          /\ drawn.linkFaded = { l.lid : l \in Range(drawn.links) }
    /\ (UIShown /\ DrawnSelectionHidden /\ ~renderPending /\ ~connPending) =>
          /\ selectedNode = drawn.selectedNode
          /\ connectedNodes = << >>

(* The selected node was hidden and the draw that followed marks one of its
   neighbours highlighted, from the connected set of the draw before. *)
C26_HiddenSelectionNeighbourLit ==
    /\ UIShown
    /\ DrawnSelectionHidden
    /\ renderPending
    /\ drawn.nodeHighlighted # {}

(* Once both effects have run for a hidden selected node, the selection is
   kept, the connected set is empty and everything drawn is faded. *)
C26_SettledHiddenSelectionFaded ==
    (UIShown /\ DrawnSelectionHidden /\ ~renderPending /\ ~connPending) =>
        /\ selectedNode = drawn.selectedNode
        /\ connectedNodes = << >>
        /\ drawn.nodeHighlighted = {}
        /\ drawn.nodeFaded = Range(drawn.nodes)
        /\ drawn.linkHighlighted = {}
        /\ drawn.linkFaded = { l.lid : l \in Range(drawn.links) }

(* C27: the pin of a node is null or a point with both coordinates, and a
   node is pinned only while a drag gesture on it is in progress, whether the
   gesture was bound by the last render or by one before it. *)
C27_PinnedOnlyDuringDrag ==
    \A n \in DOMAIN pin :
        /\ pin[n] = NoPos \/ (Len(pin[n]) = 2 /\ pin[n][1] \in Int /\ pin[n][2] \in Int)
        /\ pin[n] # NoPos => \E g \in gestures : g.node = n
        /\ gestures = {} => pin[n] = NoPos

(* The simulation was rebuilt while a finger dragged the node, and the finger
   was lifted: no gesture is in progress and the node drawn is pinned. *)
C27_PinnedWithoutGesture ==
    /\ UIShown
    /\ drawn.built
    /\ gestures = {}
    /\ \E n \in Range(drawn.nodes) : pin[n] # NoPos

(* C28: the alpha target of the simulation of the last render is 0.3 when a
   drag gesture is in progress and 0 when none is. *)
C28_AlphaTargetFollowsGestures ==
    (UIShown /\ drawn.built) =>
        sim.alphaTarget = (IF gestures # {} THEN DragAlphaTarget ELSE 0)

(* The simulation was rebuilt while a drag was in progress: the node is
   pinned by the gesture, and the alpha target of the running simulation
   is 0. *)
C28_DragWithoutTarget ==
    /\ UIShown
    /\ drawn.built
    /\ sim.running
    /\ sim.alphaTarget = 0
    /\ \E g \in gestures : g.node \in Range(drawn.nodes) /\ pin[g.node] # NoPos

(* With the gestures bound by the last render only, the alpha target is 0.3
   exactly while one of them is in progress. *)
C28_TargetFollowsCurrentGestures ==
    (UIShown /\ drawn.built) =>
        sim.alphaTarget = (IF DragInProgress THEN DragAlphaTarget ELSE 0)

(* C29: between data loads, a step that is not a handler of the drag
   behaviour, taken while no drag is in progress, does not increase the alpha
   of the simulation and does not start a tick loop that had stopped. *)
C29_AlphaRaisedOnlyByDrag ==
    [][(/\ UIShown /\ drawn.built
        /\ drawn.data.nodes = graphData.nodes
        /\ graphData'.nodes = graphData.nodes
        /\ gestures = {}
        /\ ~DragHandler)
           => /\ sim'.alpha <= sim.alpha
              /\ ~sim.running => ~sim'.running]_vars

(* A tick of an earlier simulation of the same data has moved the node, a
   node was clicked or a filter changed, and the simulation is at full alpha
   again. *)
C29_AlphaBackAtFull ==
    /\ UIShown /\ drawn.built
    /\ loads = 1
    /\ gestures = {} /\ lastEnded = NoGesture
    /\ sim.running
    /\ sim.alpha = InitialAlpha
    /\ \E n \in Range(drawn.nodes) : pos[n] # InitPoint(1)

(* C30: selectedFile is null or the file of one of the tabs, and no two tabs
   are of the same node id. *)
C30_SelectedFileIsOpen ==
    /\ selectedFile = NoNode \/ selectedFile \in Range(openedFiles)
    /\ \A i, j \in DOMAIN openedFiles :
          openedFiles[i].id = openedFiles[j].id => i = j

(* Files were opened from the graph and from a file reference, one of them
   twice, and the tab of the selected one was closed: two tabs are left and
   no file is selected. *)
C30_Witness ==
    /\ UIShown
    /\ Len(openedFiles) = 2
    /\ selectedFile = NoNode
    /\ selectedNode # NoNode
    /\ selectedNode.id \in { f.id : f \in Range(openedFiles) }

====
